---- MODULE Spec2Model ----
(***************************************************************************)
(* scdl: the per-track acquisition pipeline of src/scdl/scdl.py            *)
(* (download_track, download_original_file, download_hls,                  *)
(* already_downloaded, the download archive, remove_files) and the         *)
(* filename composer get_filename.                                         *)
(*                                                                         *)
(* Text is modelled as a sequence of characters, a character being a       *)
(* one-element name ("a", ".", "U+00E9"); a file of the working directory  *)
(* is its name; the archive file is its content, a sequence of characters. *)
(***************************************************************************)
EXTENDS Integers, Sequences, FiniteSets, TLC

VARIABLES
    kwargs,                 \* the parsed command line (python_args)
    fs,                     \* names of the regular files of the working directory
    archive,                \* content of the archive file, None when there is no file
    fileToKeep,             \* the global fileToKeep
    pc,                     \* position of the run
    ntracks,                \* tracks handed to download_track so far
    exit_code,              \* "running", then the exit status of the process
    track,                  \* download_track: the track being processed
    filename,               \* download_track: filename
    is_already_downloaded,  \* download_track: is_already_downloaded
    r,                      \* download_original_file: the response whose body is being read
    received,               \* download_original_file: received
    temp,                   \* the temporary file: <<>> when there is none, else <<chunks held>>
    events,                 \* history: what has happened for the current track
    outcome,                \* history: how the last download_track call ended
    lastCheck,              \* history: the last already_downloaded call
    runs,                   \* history: per track id, the download_track calls that got to
                            \* record_download_archive with archive tracking enabled,
                            \* those of earlier runs included
    fn,                     \* get_filename taken step by step (specification SpecName)
    playlist                \* download_playlist taken step by step (specification SpecList)

vars == <<kwargs, fs, archive, fileToKeep, pc, ntracks, exit_code, track, filename,
          is_already_downloaded, r, received, temp, events, outcome, lastCheck, runs, fn,
          playlist>>

\* Python's None where a text is expected: a text no sequence of characters equals
None == <<"None">>

\* Python's None where an object is expected
Nil == [nil |-> TRUE]

(***************************************************************************)
(* Bounds of the model.                                                    *)
(***************************************************************************)
MaxTracks == 1         \* tracks of one batch
MaxChunks == 1         \* chunks of a response body, and of a declared content length

(***************************************************************************)
(* Text.                                                                   *)
(***************************************************************************)
\* len(c.encode("utf-8")) of one character
Utf8Len(c) ==
    CASE c \in {"U+00E9", "U+023A"} -> 2
      [] c \in {"U+20AC", "U+2C65"} -> 3
      [] c = "U+1F600" -> 4
      [] OTHER -> 1

\* len(s.encode("utf-8")): the characters of each width, counted
EncodedLen(s) ==
    LET N(w) == Cardinality({i \in 1..Len(s) : Utf8Len(s[i]) = w})
    IN  N(1) + 2 * N(2) + 3 * N(3) + 4 * N(4)

\* str.lower of one character
LowerChar(c) ==
    CASE c = "A" -> "a"
      [] c = "M" -> "m"
      [] c = "P" -> "p"
      [] c = "W" -> "w"
      [] c = "V" -> "v"
      [] c = "U+023A" -> "U+2C65"
      [] OTHER -> c

\* str.lower
Lower(s) == [i \in 1..Len(s) |-> LowerChar(s[i])]

\* s[:-n]
DropLast(s, n) == IF Len(s) <= n THEN <<>> ELSE SubSeq(s, 1, Len(s) - n)

\* needle in hay
Contains(hay, needle) ==
    \E i \in 0..(Len(hay) - Len(needle)) : SubSeq(hay, i + 1, i + Len(needle)) = needle

\* hay.endswith(suffix)
EndsWith(hay, suffix) ==
    /\ Len(suffix) <= Len(hay)
    /\ SubSeq(hay, Len(hay) - Len(suffix) + 1, Len(hay)) = suffix

\* index of the last occurrence of character c in s, 0 when there is none
LastIndex(s, c) ==
    IF \E i \in 1..Len(s) : s[i] = c
    THEN CHOOSE i \in 1..Len(s) : s[i] = c /\ \A j \in (i + 1)..Len(s) : s[j] # c
    ELSE 0

\* os.path.splitext(p): <<root, ext>>; the extension starts at the last dot of the
\* last path component, unless only dots precede it in that component
splitext(p) ==
    LET sep == LastIndex(p, "/")
        dot == LastIndex(p, ".")
    IN  IF dot > sep /\ \E i \in (sep + 1)..(dot - 1) : p[i] # "."
        THEN <<SubSeq(p, 1, dot - 1), SubSeq(p, dot, Len(p))>>
        ELSE <<p, <<>>>>

Digit(d) == CASE d = 0 -> "0" [] d = 1 -> "1" [] d = 2 -> "2" [] d = 3 -> "3"
              [] d = 4 -> "4" [] d = 5 -> "5" [] d = 6 -> "6" [] d = 7 -> "7"
              [] d = 8 -> "8" [] d = 9 -> "9"

RECURSIVE Str(_)
\* str(n) of a natural number
Str(n) == IF n < 10 THEN <<Digit(n)>> ELSE Str(n \div 10) \o <<Digit(n % 10)>>


\* title.encode("utf-8", "ignore").decode("utf-8"): a lone surrogate cannot be encoded
\* and is dropped
Utf8Ignore(s) == SelectSeq(s, LAMBDA c : c # "U+D800")

RECURSIVE RStrip(_, _)
\* s.rstrip(chars)
RStrip(s, chars) ==
    IF s # <<>> /\ s[Len(s)] \in chars THEN RStrip(DropLast(s, 1), chars) ELSE s

RECURSIVE LStrip(_, _)
\* s.lstrip(chars)
LStrip(s, chars) == IF s # <<>> /\ Head(s) \in chars THEN LStrip(Tail(s), chars) ELSE s

Whitespace == {" ", "\n", "\t", "\r"}

\* s.strip()
Strip(s) == LStrip(RStrip(s, Whitespace), Whitespace)

(***************************************************************************)
(* Names of files.                                                         *)
(***************************************************************************)
MP3 == <<".", "m", "p", "3">>
M4A == <<".", "m", "4", "a">>
WAV == <<".", "w", "a", "v">>
FLAC == <<".", "f", "l", "a", "c">>

\* the ceiling of get_filename
MaxFilenameBytes == 255

\* characters pathvalidate removes from a file name on every platform
InvalidChars == {"/", "\\", ":", "*", "?", "\"", "<", ">", "|", "U+0000"}

\* pathvalidate.sanitize_filename with its defaults: invalid characters are removed,
\* the name is cut to 255 characters, trailing spaces and dots are stripped
sanitize_filename(name) ==
    LET kept == SelectSeq(name, LAMBDA c : c \notin InvalidChars)
        cut == IF Len(kept) > MaxFilenameBytes THEN SubSeq(kept, 1, MaxFilenameBytes) ELSE kept
    IN  RStrip(cut, {" ", "."})

\* one field of str.format: the keyword arguments of get_filename's format calls.
\* Error stands for the KeyError / TypeError of a placeholder that cannot be resolved
Error == <<"Error">>

FormatField(token, t, playlist_info, timestamp) ==
    CASE token = "{title}" -> t.title
      [] token = "{id}" -> Str(t.id)
      [] token = "{user[username]}" -> t.username
      [] token = "{timestamp}" -> timestamp
      [] token = "{playlist[title]}" ->
            IF playlist_info = Nil THEN Error ELSE playlist_info.title
      [] token = "{playlist[author]}" ->
            IF playlist_info = Nil THEN Error ELSE playlist_info.author
      [] token = "{playlist[tracknumber]}" ->
            IF playlist_info = Nil THEN Error ELSE playlist_info.tracknumber
      [] token = "{nosuchfield}" -> Error
      [] OTHER -> <<token>>

RECURSIVE Format(_, _, _, _)
\* template.format(**asdict(track), playlist=playlist_info, timestamp=timestamp); a
\* template is a sequence of literal characters and placeholders
Format(template, t, playlist_info, timestamp) ==
    IF template = <<>> THEN <<>>
    ELSE LET head == FormatField(Head(template), t, playlist_info, timestamp)
             rest == Format(Tail(template), t, playlist_info, timestamp)
         IN  IF head = Error \/ rest = Error THEN Error ELSE head \o rest

\* get_filename, lines 372-388: the title before the extension is resolved
ComposeTitle(t, playlist_info, kw) ==
    LET title0 == Utf8Ignore(t.title)
        title1 == IF kw.addtofile /\ ~Contains(title0, t.username) /\ ~Contains(title0, <<"-">>)
                  THEN t.username \o <<" ", "-", " ">> \o title0
                  ELSE title0
        timestamp == Str(t.created_at)
        title2 == IF kw.addtimestamp THEN timestamp \o <<"_">> \o title1 ELSE title1
    IN  IF ~kw.addtofile /\ ~kw.addtimestamp
        THEN IF playlist_info # Nil
             THEN Format(kw.playlist_name_format, t, playlist_info, timestamp)
             ELSE Format(kw.name_format, t, playlist_info, timestamp)
        ELSE title2

\* get_filename, lines 390-393
ResolveExt(original_filename, aac) ==
    IF original_filename # None THEN splitext(original_filename)[2]
    ELSE IF aac THEN M4A ELSE MP3

\* the condition of the while loop of line 395
TooLong(title, ext) == EncodedLen(title) > MaxFilenameBytes - EncodedLen(ext)

\* stands for a call that never returns
Loop == <<"Loop">>

RECURSIVE Truncate(_, _)
\* the while loop of lines 395-396; ""[:-1] is "", so with an empty title that is
\* still too long the loop never ends
Truncate(title, ext) ==
    IF ~TooLong(title, ext) THEN title
    ELSE IF title = <<>> THEN Loop
    ELSE Truncate(DropLast(title, 1), ext)

\* get_filename, lines 397-399
FinishFilename(title, ext) == sanitize_filename(title \o Lower(ext))

\* get_filename(track, original_filename, aac, playlist_info, **kwargs)
get_filename(t, original_filename, aac, playlist_info, kw) ==
    IF kw.original_name /\ original_filename # None /\ original_filename # <<>>
    THEN original_filename
    ELSE LET title == ComposeTitle(t, playlist_info, kw)
             ext == ResolveExt(original_filename, aac)
         IN  IF title = Error THEN Error
             ELSE IF Truncate(title, ext) = Loop THEN Loop
             ELSE FinishFilename(Truncate(title, ext), ext)

\* can_convert(filename)
can_convert(name) ==
    LET ext == splitext(name)[2]
    IN  Contains(ext, <<"w", "a", "v">>) \/ Contains(ext, <<"a", "i", "f">>)

\* filename[:-4] + ".flac"
FlacName(name) == DropLast(name, 4) \o FLAC

(***************************************************************************)
(* The download archive.                                                   *)
(***************************************************************************)
\* index of the first occurrence of character c in s, 0 when there is none
FirstIndex(s, c) ==
    IF \E i \in 1..Len(s) : s[i] = c
    THEN CHOOSE i \in 1..Len(s) : s[i] = c /\ \A j \in 1..(i - 1) : s[j] # c
    ELSE 0

RECURSIVE Lines(_)
\* the lines a text file yields when iterated, each with its line end
Lines(content) ==
    IF content = <<>> THEN <<>>
    ELSE LET i == FirstIndex(content, "\n")
         IN  IF i = 0 THEN <<content>>
             ELSE <<SubSeq(content, 1, i)>> \o Lines(SubSeq(content, i + 1, Len(content)))

\* a membership test that looks for the id anywhere in a line
in_download_archive_substring(t, kw, content, io_ok) ==
    IF kw.download_archive = <<>> THEN FALSE
    ELSE IF ~io_ok \/ content = None THEN FALSE
    ELSE \E i \in 1..Len(Lines(content)) : Contains(Lines(content)[i], Str(t.id))

\* in_download_archive(track, **kwargs) on an archive file of the given content;
\* io_ok is whether open(archive_filename, "a+") succeeds. The None of line 637 and
\* the False of line 651 are both falsy
in_download_archive(t, kw, content, io_ok) ==
    IF kw.download_archive = <<>> THEN FALSE
    ELSE IF ~io_ok \/ content = None THEN FALSE
    ELSE \E i \in 1..Len(Lines(content)) : Strip(Lines(content)[i]) = Str(t.id)

\* the archive file after in_download_archive: mode "a+" creates a missing file
ArchiveOpened(kw, content, io_ok) ==
    IF kw.download_archive # <<>> /\ io_ok /\ content = None THEN <<>> ELSE content

\* a record_download_archive whose test of the option is inverted
record_download_archive_inverted(t, kw, content, io_ok) ==
    IF kw.download_archive # <<>> \/ ~io_ok THEN content
    ELSE (IF content = None THEN <<>> ELSE content) \o Str(t.id) \o <<"\n">>

\* the archive file after record_download_archive(track, **kwargs); io_ok is whether
\* open(archive_filename, "a") and the write succeed
record_download_archive(t, kw, content, io_ok) ==
    IF kw.download_archive = <<>> \/ ~io_ok THEN content
    ELSE (IF content = None THEN <<>> ELSE content) \o Str(t.id) \o <<"\n">>

\* the archive file is a regular file of the working directory when its path is a
\* bare name
ArchiveInCwd(kw) ==
    kw.download_archive # <<>> /\ ~Contains(kw.download_archive, <<"/">>)

(***************************************************************************)
(* already_downloaded(track, title, filename, **kwargs) on the files `files`*)
(* and the archive content `content`: what it returns ("True", "False", or *)
(* "exit" for sys.exit(-1)), what it leaves on disk, and what it saw: the   *)
(* name asked about, whether that file and its .flac sibling were there,   *)
(* whether the archive held the id.                                        *)
(***************************************************************************)
\* a line 623 that forgets --remove
MayContinue_no_remove(kw) == kw.c \/ kw.force_metadata

\* line 623: what lets a run go on past a track that is already there
MayContinue(kw) == kw.c \/ kw.remove \/ kw.force_metadata

already_downloaded(t, name, kw, files, content, io_ok) ==
    LET isfile == name \in files
        \* lines 602-606
        ad1 == isfile /\ ~kw.overwrite
        files1 == IF isfile /\ kw.overwrite THEN files \ {name} ELSE files
        \* lines 607-615
        sibling == kw.flac /\ can_convert(name) /\ FlacName(name) \in files1
        ad2 == IF sibling THEN ~kw.overwrite ELSE ad1
        files2 == IF sibling /\ kw.overwrite THEN files1 \ {FlacName(name)} ELSE files1
        \* lines 616-617
        found == in_download_archive(t, kw, content, io_ok)
        ad3 == found \/ ad2
        \* lines 619-620
        ad4 == IF kw.flac /\ can_convert(name) /\ name \in files2 THEN FALSE ELSE ad3
        ret == IF ~ad4 THEN "False" ELSE IF MayContinue(kw) THEN "True" ELSE "exit"
    IN  [ret |-> ret,
         fs |-> files2,
         archive |-> ArchiveOpened(kw, content, io_ok),
         seen |-> [name |-> name, isfile |-> isfile, sibling |-> sibling,
                   found |-> found, ret |-> ret]]

(***************************************************************************)
(* The inputs: tracks, command lines, responses of the server.             *)
(***************************************************************************)
TrackIds == {1, 12}

\* the two tracks of the catalogue are two uploads under one title
TitleOf(id) == <<"a">>

HlsMpeg == [protocol |-> "hls", mime_type |-> "audio/mpeg"]
HlsMp4 == [protocol |-> "hls", mime_type |-> "audio/mp4; codecs=mp4a"]

\* mime_type.startswith("audio/mp4")
StartsWithAudioMp4(mime_type) == mime_type = "audio/mp4; codecs=mp4a"

\* track.media.transcodings: track 1 has an mp3 rendition only, track 12 an AAC one too
RenditionsOf(id) == IF id = 1 THEN {HlsMpeg} ELSE {HlsMpeg, HlsMp4}

\* streamable, policy, downloadable, has_downloads_left of the tracks of the catalogue
AccessCases ==
    {<<FALSE, "ALLOW", TRUE, TRUE>>, <<FALSE, "BLOCK", TRUE, TRUE>>,
     <<TRUE, "BLOCK", TRUE, TRUE>>, <<TRUE, "ALLOW", TRUE, TRUE>>,
     <<TRUE, "ALLOW", TRUE, FALSE>>, <<TRUE, "ALLOW", FALSE, TRUE>>}

Track(id, a) ==
    [id |-> id, title |-> TitleOf(id), username |-> <<"u">>, created_at |-> 7,
     streamable |-> a[1], policy |-> a[2], downloadable |-> a[3],
     has_downloads_left |-> a[4], transcodings |-> RenditionsOf(id)]

\* the catalogue: track 1 in every access case, track 12 freely downloadable
Tracks ==
    {Track(1, a) : a \in AccessCases} \cup {Track(12, <<TRUE, "ALLOW", TRUE, TRUE>>)}

\* --download-archive: not given, or a bare name, a file of the working directory
\* (main has made the download path the working directory, lines 128-130 and 185-187)
ArchivePaths == {<<>>, <<"l">>}

\* the command lines docopt accepts (usage, lines 7-12): -c and --force-metadata
\* exclude each other. --no-original is read only when --onlymp3 is unset (lines
\* 544-545), so it is left unset with --onlymp3. The options that only shape file
\* names keep the defaults here; SpecName varies them
Configs ==
    {kw \in [c : BOOLEAN, force_metadata : BOOLEAN, remove : BOOLEAN, overwrite : BOOLEAN,
             onlymp3 : BOOLEAN, no_original : BOOLEAN, only_original : BOOLEAN,
             flac : BOOLEAN, download_archive : ArchivePaths,
             original_name : {FALSE}, addtofile : {FALSE}, addtimestamp : {FALSE},
             name_format : {<<"{title}">>},
             playlist_name_format : {<<"{playlist[title]}", "_", "{title}">>}] :
        ~(kw.c /\ kw.force_metadata) /\ ~(kw.onlymp3 /\ kw.no_original)}

\* what the server says of an original file: content-disposition's filename and the
\* extension mimetypes.guess_extension finds for the content type (None: unknown type)
ServerFiles ==
    {[disposition |-> <<"o">> \o WAV, mime_ext |-> None],
     [disposition |-> <<"o">>, mime_ext |-> MP3]}

NoResponse ==
    [url |-> FALSE, status |-> 0, disposition |-> None, mime_ext |-> None,
     content_length |-> 0]

\* client.get_track_original_download and requests.get(url, stream=True): no URL, or
\* the status and headers of a response. content_length is the declared length in
\* chunks, -1 when the header is missing
Responses ==
    {NoResponse}
    \cup {[NoResponse EXCEPT !.url = TRUE, !.status = st] : st \in {401, 404}}
    \cup {[url |-> TRUE, status |-> 200, disposition |-> f.disposition,
           mime_ext |-> f.mime_ext, content_length |-> cl] :
             f \in ServerFiles, cl \in 0..MaxChunks}
    \cup {[NoResponse EXCEPT !.url = TRUE, !.status = 200]}
    \cup {[NoResponse EXCEPT !.url = TRUE, !.status = 200,
                             !.disposition = <<"o">> \o WAV, !.content_length = -1]}

\* the file names a run can meet in the working directory
FileNames ==
    {TitleOf(id) \o ext : id \in TrackIds, ext \in {MP3, M4A, WAV, FLAC}}

\* the working directory when the run starts
InitFiles == {{}} \cup {{f} : f \in FileNames}
             \cup {{TitleOf(id) \o WAV, TitleOf(id) \o FLAC} : id \in TrackIds}

\* the number of lines of an archive file that hold the id, as in_download_archive
\* reads them
Entries(content, id) ==
    IF content = None THEN 0
    ELSE Cardinality({i \in 1..Len(Lines(content)) : Strip(Lines(content)[i]) = Str(id)})

\* the archive file when the run starts: missing, or holding the id an earlier run
\* wrote
InitArchives == {None} \cup {Str(id) \o <<"\n">> : id \in TrackIds}

(***************************************************************************)
(* The run.                                                                *)
(***************************************************************************)
\* whether opening the archive file succeeds; never asked without --download-archive
IOOutcomes(kw) == IF kw.download_archive = <<>> THEN {TRUE} ELSE BOOLEAN

Init ==
    /\ kwargs \in Configs
    /\ fs \in InitFiles
    /\ archive \in (IF kwargs.download_archive = <<>> THEN {None} ELSE InitArchives)
    /\ fileToKeep = {}
    /\ pc = "main"
    /\ ntracks = 0
    /\ exit_code = "running"
    /\ track = Nil
    /\ filename = None
    /\ is_already_downloaded = FALSE
    /\ r = NoResponse
    /\ received = 0
    /\ temp = <<>>
    /\ events = <<>>
    /\ outcome = "None"
    /\ lastCheck = Nil
    /\ runs = [id \in TrackIds |-> Entries(archive, id)]
    /\ fn = Nil
    /\ playlist = Nil

\* a sys.exit that a bare except swallows: the loop over the tracks goes on
Exit_swallowed(code, how) == pc' = "main" /\ exit_code' = code /\ outcome' = how

\* sys.exit(code), or an exception nothing catches (exit status 1)
Exit(code, how) == pc' = "exit" /\ exit_code' = code /\ outcome' = how

\* download_track returns to the loop of download_url
Return(how) == pc' = "main" /\ outcome' = how /\ UNCHANGED exit_code

\* a condition of lines 541-546 that reads --onlymp3 the wrong way round
WantsOriginal_inverted(t, kw) ==
    t.downloadable /\ t.has_downloads_left /\ kw.onlymp3 /\ ~kw.no_original

\* the condition of lines 541-546
WantsOriginal(t, kw) ==
    t.downloadable /\ t.has_downloads_left /\ ~kw.onlymp3 /\ ~kw.no_original

\* a download_track that takes the test of the access policy before the streamable test
StartTrack_policy_first(t, limit) ==
    /\ pc = "main"
    /\ ntracks < limit
    /\ ntracks' = ntracks + 1
    /\ track' = t
    /\ filename' = None
    /\ is_already_downloaded' = FALSE
    /\ r' = NoResponse
    /\ received' = 0
    /\ events' = <<>>
    /\ lastCheck' = Nil
    /\ IF t.policy = "BLOCK" THEN Return("SkippedGeo")
       ELSE IF ~t.streamable THEN Return("SkippedNotStreamable")
       ELSE /\ pc' = IF WantsOriginal(t, kwargs) THEN "original" ELSE "select"
            /\ outcome' = "None"
            /\ UNCHANGED exit_code
    /\ UNCHANGED <<kwargs, fs, archive, fileToKeep, temp, runs, fn,
                   playlist>>

\* download_track, lines 524-547: the two skips, then the choice of the source, for
\* the next track of a batch of at most `limit` tracks
StartTrack(t, limit) ==
    /\ pc = "main"
    /\ ntracks < limit
    /\ ntracks' = ntracks + 1
    /\ track' = t
    /\ filename' = None
    /\ is_already_downloaded' = FALSE
    /\ r' = NoResponse
    /\ received' = 0
    /\ events' = <<>>
    /\ lastCheck' = Nil
    /\ IF ~t.streamable THEN Return("SkippedNotStreamable")
       ELSE IF t.policy = "BLOCK" THEN Return("SkippedGeo")
       ELSE /\ pc' = IF WantsOriginal(t, kwargs) THEN "original" ELSE "select"
            /\ outcome' = "None"
            /\ UNCHANGED exit_code
    /\ UNCHANGED <<kwargs, fs, archive, fileToKeep, temp, runs, fn,
                   playlist>>

\* download_track(client, track, **kwargs), called by download_url
download_track(t) == StartTrack(t, MaxTracks)

\* download_original_file, lines 421-429: the provisional name
ProvisionalName(resp) ==
    LET parts == splitext(resp.disposition)
    IN  parts[1] \o (IF resp.mime_ext # None THEN resp.mime_ext ELSE parts[2])

\* download_original_file, lines 403-442: up to the opening of the temporary file
download_original_file ==
    /\ pc = "original"
    /\ \E resp \in Responses, io_ok \in IOOutcomes(kwargs) :
        LET name == get_filename(track, ProvisionalName(resp), FALSE, Nil, kwargs)
            ad == already_downloaded(track, name, kwargs, fs, archive, io_ok)
        IN  /\ IF ~resp.url \/ resp.status \in {401, 404}
               THEN /\ events' = events \o <<"original", "no_original">>
                    /\ pc' = "select"
                    /\ UNCHANGED <<fs, archive, filename, is_already_downloaded, temp,
                                   lastCheck, outcome, exit_code, r>>
               ELSE IF resp.disposition = None \/ name = Error
               THEN /\ events' = events \o <<"original">>
                    /\ Exit("1", "Crash")
                    /\ UNCHANGED <<fs, archive, filename, is_already_downloaded, temp,
                                   lastCheck, r>>
               ELSE IF name = Loop
               THEN /\ events' = events \o <<"original">>
                    /\ pc' = "hang"
                    /\ UNCHANGED <<fs, archive, filename, is_already_downloaded, temp,
                                   lastCheck, outcome, exit_code, r>>
               ELSE /\ fs' = ad.fs
                    /\ archive' = ad.archive
                    /\ lastCheck' = ad.seen
                    /\ CASE ad.ret = "exit" ->
                              /\ events' = events \o <<"original">>
                              /\ Exit("-1", "FatalAbort")
                              /\ UNCHANGED <<filename, is_already_downloaded, temp, r>>
                         [] ad.ret = "True" ->
                              /\ events' = events \o <<"original", "skipped">>
                              /\ filename' = IF kwargs.flac /\ can_convert(name)
                                             THEN FlacName(name) ELSE name
                              /\ is_already_downloaded' = TRUE
                              /\ pc' = "keep"
                              /\ UNCHANGED <<temp, outcome, exit_code, r>>
                         [] ad.ret = "False" /\ resp.content_length < 0 ->
                              /\ events' = events \o <<"original">>
                              /\ Exit("1", "Crash")
                              /\ UNCHANGED <<filename, is_already_downloaded, temp, r>>
                         [] OTHER ->
                              /\ events' = events \o <<"original", "body">>
                              /\ r' = resp
                              /\ filename' = name
                              /\ temp' = <<0>>
                              /\ pc' = "write"
                              /\ UNCHANGED <<is_already_downloaded, outcome, exit_code>>
    /\ UNCHANGED <<kwargs, fileToKeep, ntracks, track, received, runs, fn,
                   playlist>>

\* download_original_file, lines 445-453: the connection delivers one more chunk,
\* which goes to the temporary file
iter_content ==
    /\ pc = "write"
    /\ received < MaxChunks
    /\ received' = received + 1
    /\ temp' = <<temp[1] + 1>>
    /\ UNCHANGED <<kwargs, fs, archive, fileToKeep, pc, ntracks, exit_code, track, filename,
                   is_already_downloaded, r, events, outcome, lastCheck, runs, fn,
                   playlist>>

\* a line 455 that only notices a short body
Incomplete_short(count, total_length) == count < total_length

\* line 455
Incomplete(count, total_length) == count # total_length

\* download_original_file, lines 455-470: the body has ended, or the connection has
\* closed; the count is compared, the temporary file moved into place, a convertible
\* file converted by ffmpeg, whose exit status is not looked at
finish_original ==
    /\ pc = "write"
    /\ IF Incomplete(received, r.content_length)
       THEN /\ Exit("-1", "FatalAbort")
            /\ UNCHANGED <<fs, temp, filename, events, r, received>>
       ELSE /\ temp' = <<>>
            /\ r' = NoResponse
            /\ received' = 0
            /\ IF kwargs.flac /\ can_convert(filename)
               THEN \E converted \in BOOLEAN :
                       /\ fs' = ((fs \cup {filename})
                                 \cup (IF converted THEN {FlacName(filename)} ELSE {}))
                                \ {filename}
                       /\ filename' = FlacName(filename)
                       /\ events' = events \o <<"moved", "ffmpeg">>
               ELSE /\ fs' = fs \cup {filename}
                    /\ events' = events \o <<"moved">>
                    /\ UNCHANGED filename
            /\ pc' = "keep"
            /\ UNCHANGED <<outcome, exit_code>>
    /\ UNCHANGED <<kwargs, archive, fileToKeep, ntracks, track, is_already_downloaded,
                   lastCheck, runs, fn,
                   playlist>>

\* a download_track whose --only-original return comes after lines 555-558
skip_no_original_late ==
    /\ pc = "select"
    /\ kwargs.only_original
    /\ fileToKeep' = IF kwargs.remove THEN fileToKeep \cup {filename} ELSE fileToKeep
    /\ archive' = record_download_archive(track, kwargs, archive, TRUE)
    /\ Return("SkippedNoOriginal")
    /\ UNCHANGED <<kwargs, fs, ntracks, track, filename,
                   is_already_downloaded, r, received, temp, events, lastCheck, runs, fn,
                   playlist>>

\* download_track, lines 549-552: no original file and --only-original
skip_no_original ==
    /\ pc = "select"
    /\ kwargs.only_original
    /\ Return("SkippedNoOriginal")
    /\ UNCHANGED <<kwargs, fs, archive, fileToKeep, ntracks, track, filename,
                   is_already_downloaded, r, received, temp, events, lastCheck, runs, fn,
                   playlist>>

\* download_hls, lines 493-499
Aac(t, kw) ==
    IF kw.onlymp3 THEN FALSE
    ELSE \E tr \in t.transcodings : StartsWithAudioMp4(tr.mime_type)

\* a download_hls that asks for the manifest before it makes the check
download_hls_manifest_first ==
    /\ pc = "select"
    /\ ~kwargs.only_original
    /\ \E io_ok \in IOOutcomes(kwargs) :
        LET name == get_filename(track, None, Aac(track, kwargs), Nil, kwargs)
            ad == already_downloaded(track, name, kwargs, fs, archive, io_ok)
        IN  IF name = Error
            THEN /\ events' = events \o <<"stream">>
                 /\ Exit("1", "Crash")
                 /\ UNCHANGED <<fs, archive, filename, is_already_downloaded, lastCheck>>
            ELSE /\ fs' = ad.fs
                 /\ archive' = ad.archive
                 /\ lastCheck' = ad.seen
                 /\ CASE ad.ret = "exit" ->
                           /\ events' = events \o <<"stream">>
                           /\ Exit("-1", "FatalAbort")
                           /\ UNCHANGED <<filename, is_already_downloaded>>
                      [] ad.ret = "True" ->
                           /\ events' = events \o <<"stream", "manifest", "skipped">>
                           /\ filename' = name
                           /\ is_already_downloaded' = TRUE
                           /\ pc' = "keep"
                           /\ UNCHANGED <<outcome, exit_code>>
                      [] OTHER ->
                           /\ events' = events \o <<"stream">>
                           /\ filename' = name
                           /\ pc' = "remux"
                           /\ UNCHANGED <<is_already_downloaded, outcome, exit_code>>
    /\ UNCHANGED <<kwargs, fileToKeep, ntracks, track, r, received, temp, runs, fn,
                   playlist>>

\* download_hls, lines 493-505 (called at line 553): the name and the check
download_hls ==
    /\ pc = "select"
    /\ ~kwargs.only_original
    /\ \E io_ok \in IOOutcomes(kwargs) :
        LET name == get_filename(track, None, Aac(track, kwargs), Nil, kwargs)
            ad == already_downloaded(track, name, kwargs, fs, archive, io_ok)
        IN  IF name = Error
            THEN /\ events' = events \o <<"stream">>
                 /\ Exit("1", "Crash")
                 /\ UNCHANGED <<fs, archive, filename, is_already_downloaded, lastCheck>>
            ELSE /\ fs' = ad.fs
                 /\ archive' = ad.archive
                 /\ lastCheck' = ad.seen
                 /\ CASE ad.ret = "exit" ->
                           /\ events' = events \o <<"stream">>
                           /\ Exit("-1", "FatalAbort")
                           /\ UNCHANGED <<filename, is_already_downloaded>>
                      [] ad.ret = "True" ->
                           /\ events' = events \o <<"stream", "skipped">>
                           /\ filename' = name
                           /\ is_already_downloaded' = TRUE
                           /\ pc' = "keep"
                           /\ UNCHANGED <<outcome, exit_code>>
                      [] OTHER ->
                           /\ events' = events \o <<"stream">>
                           /\ filename' = name
                           /\ pc' = "remux"
                           /\ UNCHANGED <<is_already_downloaded, outcome, exit_code>>
    /\ UNCHANGED <<kwargs, fileToKeep, ntracks, track, r, received, temp, runs, fn,
                   playlist>>

\* get_track_m3u8(client, track, aac): whether a rendition gives a URL to ask the
\* manifest of
get_track_m3u8(t, aac) ==
    \E tr \in t.transcodings :
        /\ tr.protocol = "hls"
        /\ \/ ~aac /\ tr.mime_type = "audio/mpeg"
           \/ aac /\ StartsWithAudioMp4(tr.mime_type)

\* download_hls, lines 507-517: the manifest request and the ffmpeg remux, which
\* leaves the file or does not; without a URL subprocess.run raises
remux ==
    /\ pc = "remux"
    /\ IF ~get_track_m3u8(track, Aac(track, kwargs))
       THEN /\ Exit("1", "Crash")
            /\ UNCHANGED <<fs, events>>
       ELSE \E written \in BOOLEAN :
               /\ fs' = IF written THEN fs \cup {filename} ELSE fs
               /\ events' = events \o <<"manifest", "ffmpeg">>
               /\ pc' = "keep"
               /\ UNCHANGED <<outcome, exit_code>>
    /\ UNCHANGED <<kwargs, archive, fileToKeep, ntracks, track, filename,
                   is_already_downloaded, r, received, temp, lastCheck, runs, fn,
                   playlist>>

\* a record_download_archive without the try of lines 662-667: a failing write ends
\* the run
record_write_uncaught ==
    /\ pc = "keep"
    /\ fileToKeep' = IF kwargs.remove THEN fileToKeep \cup {filename} ELSE fileToKeep
    /\ runs' = IF kwargs.download_archive # <<>>
                THEN [runs EXCEPT ![track.id] = @ + 1] ELSE runs
    /\ \E io_ok \in IOOutcomes(kwargs) :
        /\ archive' = record_download_archive(track, kwargs, archive, io_ok)
        /\ events' = events \o (IF kwargs.download_archive # <<>>
                                THEN <<IF io_ok THEN "recorded" ELSE "record_failed">>
                                ELSE <<>>)
        /\ IF ~io_ok THEN Exit("1", "Crash")
           ELSE IF is_already_downloaded /\ ~kwargs.force_metadata
           THEN Return("AlreadyDownloaded")
           ELSE pc' = "tag" /\ UNCHANGED <<outcome, exit_code>>
    /\ UNCHANGED <<kwargs, fs, ntracks, track, filename, is_already_downloaded, r,
                   received, temp, lastCheck, fn,
                   playlist>>

\* a download_track that records the id only of a track it has fetched
record_unless_skipped ==
    /\ pc = "keep"
    /\ \E io_ok \in IOOutcomes(kwargs) :
        /\ archive' = IF is_already_downloaded THEN archive
                      ELSE record_download_archive(track, kwargs, archive, io_ok)
        /\ events' = events \o (IF kwargs.download_archive # <<>> /\ ~is_already_downloaded
                                THEN <<IF io_ok THEN "recorded" ELSE "record_failed">>
                                ELSE <<>>)
    /\ fileToKeep' = IF kwargs.remove THEN fileToKeep \cup {filename} ELSE fileToKeep
    /\ runs' = IF kwargs.download_archive # <<>>
                THEN [runs EXCEPT ![track.id] = @ + 1] ELSE runs
    /\ IF is_already_downloaded /\ ~kwargs.force_metadata
       THEN Return("AlreadyDownloaded")
       ELSE pc' = "tag" /\ UNCHANGED <<outcome, exit_code>>
    /\ UNCHANGED <<kwargs, fs, ntracks, track, filename, is_already_downloaded, r,
                   received, temp, lastCheck, fn,
                   playlist>>

\* download_track, lines 555-563: the keep list, the archive, the early return
record ==
    /\ pc = "keep"
    /\ \E io_ok \in IOOutcomes(kwargs) :
        /\ archive' = record_download_archive(track, kwargs, archive, io_ok)
        /\ events' = events \o (IF kwargs.download_archive # <<>>
                                THEN <<IF io_ok THEN "recorded" ELSE "record_failed">>
                                ELSE <<>>)
    /\ fileToKeep' = IF kwargs.remove THEN fileToKeep \cup {filename} ELSE fileToKeep
    /\ runs' = IF kwargs.download_archive # <<>>
                THEN [runs EXCEPT ![track.id] = @ + 1] ELSE runs
    /\ IF is_already_downloaded /\ ~kwargs.force_metadata
       THEN Return("AlreadyDownloaded")
       ELSE pc' = "tag" /\ UNCHANGED <<outcome, exit_code>>
    /\ UNCHANGED <<kwargs, fs, ntracks, track, filename, is_already_downloaded, r,
                   received, temp, lastCheck, fn,
                   playlist>>

\* a test of lines 573-575 that has lost the .m4a case
Taggable_no_m4a(name) == EndsWith(name, MP3) \/ EndsWith(name, FLAC)

\* download_track, lines 573-575
Taggable(name) == EndsWith(name, MP3) \/ EndsWith(name, FLAC) \/ EndsWith(name, M4A)

\* a download_track without the try of lines 577-580: an exception of set_metadata
\* ends the run
tag_uncaught ==
    /\ pc = "tag"
    /\ IF filename \notin fs
       THEN Exit("-1", "FatalAbort") /\ UNCHANGED events
       ELSE \E raised \in BOOLEAN :
               IF Taggable(filename) /\ raised
               THEN /\ events' = events \o <<"tag_failed">>
                    /\ Exit("1", "Crash")
               ELSE /\ events' = events \o
                         <<IF ~Taggable(filename) THEN "untaggable" ELSE "tagged", "utime">>
                    /\ Return("Downloaded")
    /\ UNCHANGED <<kwargs, fs, archive, fileToKeep, ntracks, track, filename,
                   is_already_downloaded, r, received, temp, lastCheck, runs, fn,
                   playlist>>

\* download_track, lines 565-588: the file must exist; set_metadata, whose exceptions
\* are caught; try_utime
tag ==
    /\ pc = "tag"
    /\ IF filename \notin fs
       THEN Exit("-1", "FatalAbort") /\ UNCHANGED events
       ELSE /\ \E raised \in BOOLEAN :
                 events' = events \o
                     <<IF ~Taggable(filename) THEN "untaggable"
                       ELSE IF raised THEN "tag_failed" ELSE "tagged", "utime">>
            /\ Return("Downloaded")
    /\ UNCHANGED <<kwargs, fs, archive, fileToKeep, ntracks, track, filename,
                   is_already_downloaded, r, received, temp, lastCheck, runs, fn,
                   playlist>>

\* main, lines 204-208: download_url has returned, and with it the last call of
\* download_track, whose variables and history end here
end_batch ==
    /\ pc = "main"
    /\ IF kwargs["remove"]
       THEN pc' = "remove" /\ UNCHANGED exit_code
       ELSE pc' = "exit" /\ exit_code' = "0"
    /\ track' = Nil
    /\ filename' = None
    /\ is_already_downloaded' = FALSE
    /\ events' = <<>>
    /\ outcome' = "None"
    /\ lastCheck' = Nil
    /\ UNCHANGED <<kwargs, fs, archive, fileToKeep, ntracks, r, received, temp, runs, fn,
                   playlist>>

\* os.listdir(".") filtered by os.path.isfile: the archive file is one of the
\* regular files of the working directory when its path is a bare name
ListDir(files, content, kw) ==
    files \cup (IF ArchiveInCwd(kw) /\ content # None THEN {kw.download_archive} ELSE {})

\* a remove_files whose test of the keep list has lost its "not"
remove_files_inverted ==
    /\ pc = "remove"
    /\ LET left == {f \in ListDir(fs, archive, kwargs) : f \notin fileToKeep}
       IN  /\ fs' = fs \cap left
           /\ archive' = IF ArchiveInCwd(kwargs) /\ kwargs.download_archive \notin left
                         THEN None ELSE archive
    /\ pc' = "exit"
    /\ exit_code' = "0"
    /\ UNCHANGED <<kwargs, fileToKeep, ntracks, track, filename, is_already_downloaded, r,
                   received, temp, events, outcome, lastCheck, runs, fn,
                   playlist>>

\* remove_files(), then the end of main
remove_files ==
    /\ pc = "remove"
    /\ LET left == {f \in ListDir(fs, archive, kwargs) : f \in fileToKeep}
       IN  /\ fs' = fs \cap left
           /\ archive' = IF ArchiveInCwd(kwargs) /\ kwargs.download_archive \notin left
                         THEN None ELSE archive
    /\ pc' = "exit"
    /\ exit_code' = "0"
    /\ UNCHANGED <<kwargs, fileToKeep, ntracks, track, filename, is_already_downloaded, r,
                   received, temp, events, outcome, lastCheck, runs, fn,
                   playlist>>

Next ==
    \/ \E t \in Tracks : download_track(t)
    \/ download_original_file
    \/ iter_content
    \/ finish_original
    \/ skip_no_original
    \/ download_hls
    \/ remux
    \/ record
    \/ tag
    \/ end_batch
    \/ remove_files

Spec == Init /\ [][Next]_vars

(***************************************************************************)
(* A batch of several tracks: the loops of download_url over the tracks of *)
(* a user, each handed to download_track in turn. The specification        *)
(* SpecBatch runs the same steps over MaxBatch tracks, with --overwrite,   *)
(* --flac, --onlymp3 and --no-original unset.                              *)
(***************************************************************************)
MaxBatch == 2          \* tracks of a batch

InitBatch ==
    Init /\ ~kwargs.overwrite /\ ~kwargs.flac /\ ~kwargs.onlymp3 /\ ~kwargs.no_original

\* download_url, one turn of a loop over the resources of a user
download_url(t) == StartTrack(t, MaxBatch)

NextBatch ==
    \/ \E t \in Tracks : download_url(t)
    \/ download_original_file
    \/ iter_content
    \/ finish_original
    \/ skip_no_original
    \/ download_hls
    \/ remux
    \/ record
    \/ tag
    \/ end_batch
    \/ remove_files

SpecBatch == InitBatch /\ [][NextBatch]_vars

(***************************************************************************)
(* Properties of the run.                                                  *)
(***************************************************************************)
\* a download_track call is under way or has just returned
Current == track # Nil

\* the call of download_track has returned after an acquirer gave a result
Finished == pc = "main" /\ outcome \in {"Downloaded", "AlreadyDownloaded"}

\* audio has been asked of the network for the current track: the body of the
\* original file, or the manifest and the remux of the stream
Transferred == \E i \in 1..Len(events) : events[i] \in {"body", "manifest", "ffmpeg"}

\* in_download_archive of a readable archive file, by id
Holds(content, id) == in_download_archive([id |-> id], kwargs, content, TRUE)

\* C1: with archive tracking enabled and -c, a second download_track call on a track
\* whose id an earlier call recorded transfers nothing and leaves exactly one entry for
\* the id in the archive.
C1_Idempotence ==
    (Current /\ Finished /\ kwargs.download_archive # <<>> /\ kwargs.c
        /\ lastCheck # Nil /\ lastCheck.found /\ runs[track.id] >= 2)
    => (~Transferred /\ Entries(archive, track.id) = 1)

\* C2: with --overwrite, whenever the target file exists when already_downloaded is
\* called, whatever the archive holds, the file is removed, the check reports absent
\* and the acquisition goes on: the track is neither skipped nor the run aborted.
C2_Overwrite ==
    (lastCheck # Nil /\ kwargs.overwrite /\ lastCheck.isfile)
    => /\ lastCheck.ret = "False"
       /\ ~(\E i \in 1..Len(events) : events[i] = "skipped")
       /\ outcome # "AlreadyDownloaded"

\* the flags of line 623 are all unset
NoPermission == ~kwargs.c /\ ~kwargs.remove /\ ~kwargs.force_metadata

\* what C3 asks of a check that found the asset present
ConflictResolved ==
    IF NoPermission
    THEN lastCheck.ret = "exit" /\ pc = "exit" /\ exit_code = "-1" /\ outcome = "FatalAbort"
    ELSE lastCheck.ret = "True" /\ ~Transferred /\ is_already_downloaded

\* C3 as claimed: without --overwrite, when the target file exists or the archive
\* check finds the id, the run aborts with exit status -1 if none of -c, --remove,
\* --force-metadata is set, and otherwise the check reports already done and nothing
\* is acquired.
C3_ConflictAsClaimed ==
    (lastCheck # Nil /\ ~kwargs.overwrite /\ (lastCheck.isfile \/ lastCheck.found))
    => ConflictResolved

\* the case lines 619-620 take out: --flac, a convertible target name, and the
\* target file is there
SourceLeftToConvert ==
    kwargs.flac /\ can_convert(lastCheck.name) /\ lastCheck.isfile

\* C3: as claimed, except when --flac is set, the target name is convertible and the
\* target file exists: a source file found there without its .flac sibling and without
\* an archive entry is reported absent, and nothing is said here of a source file found
\* together with the sibling or with an archive entry.
C3_Conflict ==
    (lastCheck # Nil /\ ~kwargs.overwrite /\ (lastCheck.isfile \/ lastCheck.found))
    => IF SourceLeftToConvert
       THEN (~lastCheck.sibling /\ ~lastCheck.found) => lastCheck.ret = "False"
       ELSE ConflictResolved

C3_Witness ==
    /\ lastCheck # Nil /\ ~kwargs.overwrite /\ lastCheck.isfile /\ ~SourceLeftToConvert
    /\ NoPermission /\ pc = "exit" /\ exit_code = "-1"

\* an original attempt comes first for the current track, and a stream attempt only after
\* the original attempt has said there is no original file
OriginalFirst ==
    /\ pc = "original" \/ (events # <<>> /\ events[1] = "original")
    /\ \A i \in 1..Len(events) :
          events[i] = "stream" => (i = 3 /\ events[2] = "no_original")

\* the track has passed the two skips of download_track
Selected == Current /\ track.streamable /\ track.policy # "BLOCK"

\* C4 as claimed: for a streamable, non-blocked track that is downloadable with
\* downloads left, --onlymp3 unset, the original file is attempted, and before any
\* stream attempt.
C4_OrderAsClaimed ==
    (Selected /\ track.downloadable /\ track.has_downloads_left /\ ~kwargs.onlymp3
        /\ pc # "main")
    => OriginalFirst

\* C4: as claimed, with --no-original unset too.
C4_Order ==
    (Selected /\ track.downloadable /\ track.has_downloads_left /\ ~kwargs.onlymp3
        /\ ~kwargs.no_original /\ pc # "main")
    => OriginalFirst

C4_Witness ==
    /\ Selected /\ track.downloadable /\ track.has_downloads_left /\ ~kwargs.onlymp3
    /\ ~kwargs.no_original
    /\ Len(events) >= 3 /\ events[1] = "original" /\ events[3] = "stream"

\* C5, the state part: after an original attempt that found no original file, without
\* --only-original, the stream attempt is what comes next; and when the track is then
\* finished with archive tracking enabled and the archive written without an I/O error,
\* the archive holds the id.
C5_FallbackState ==
    (Current /\ Len(events) >= 2 /\ events[2] = "no_original")
    => /\ ~kwargs.only_original =>
            \/ pc = "select" /\ Len(events) = 2
            \/ Len(events) >= 3 /\ events[3] = "stream"
       /\ (Finished /\ kwargs.download_archive # <<>>
             /\ ~(\E i \in 1..Len(events) : events[i] = "record_failed"))
            => Holds(archive, track.id)

\* C5, the step part: an original attempt that finds no original file writes nothing:
\* no file, no temporary file, no archive entry.
C5_FallbackStep ==
    (pc = "original" /\ pc' = "select") => (fs' = fs /\ temp' = temp /\ archive' = archive)

\* C5: an original attempt that reports no original file (no URL, 401, 404) writes
\* nothing and is followed by the stream attempt unless --only-original is set; when
\* the stream acquisition succeeds with archive tracking enabled and the write to the
\* archive meets no I/O error, the archive holds the track id afterwards.
C5_Fallback == [](C5_FallbackState) /\ [][C5_FallbackStep]_vars

C5_Witness ==
    /\ Current /\ Finished /\ outcome = "Downloaded" /\ kwargs.download_archive # <<>>
    /\ Len(events) >= 3 /\ events[2] = "no_original" /\ events[3] = "stream"
    /\ Holds(archive, track.id)

\* C6: with archive tracking enabled, the id in the archive, -c set and --overwrite
\* unset, the check reports already done whatever files there are, nothing is
\* transferred or written, and the tagger runs only with --force-metadata.
C6_ArchiveSkip ==
    (lastCheck # Nil /\ kwargs.download_archive # <<>> /\ lastCheck.found
        /\ kwargs.c /\ ~kwargs.overwrite)
    => /\ lastCheck.ret = "True"
       /\ ~Transferred
       /\ (\E i \in 1..Len(events) : events[i] \in {"tagged", "tag_failed"})
            => kwargs.force_metadata

\* C7: no step of the run removes an entry of the archive or the archive file.
C7_AppendOnly ==
    [][/\ archive # None => archive' # None
       /\ \A id \in TrackIds : Entries(archive', id) >= Entries(archive, id)]_vars

\* C8, the state part: the archive holds an id only if a download_track call for that
\* id got to record_download_archive, in this run or an earlier one.
C8_OnlyWritten == \A id \in TrackIds : Holds(archive, id) => runs[id] >= 1

\* C8, the step part: once record_download_archive has written the id of the track, the
\* membership check finds it; a step makes the check find an id only by recording that
\* id; the steps that call the membership check leave the entries as they were.
C8_Step ==
    /\ (pc = "keep" /\ events' = events \o <<"recorded">>) => Holds(archive', track.id)
    /\ \A id \in TrackIds :
          (~Holds(archive, id) /\ Holds(archive', id)) => (pc = "keep" /\ track.id = id)
    /\ pc \in {"original", "select"} =>
          \A id \in TrackIds : Entries(archive', id) = Entries(archive, id)

\* C8: after record_download_archive writes an id, in_download_archive finds it; an id
\* never written is not found, whatever other ids were written; a membership check
\* leaves the entries unchanged.
C8_RoundTrip == [](C8_OnlyWritten) /\ [][C8_Step]_vars

C8_Witness ==
    /\ Current /\ Len(events) >= 1 /\ events[Len(events)] = "recorded"
    /\ Holds(archive, track.id)
    /\ \E id \in TrackIds : id # track.id /\ Entries(archive, id) >= 1 /\ runs[id] = 1

\* C10, the steps of download_original_file from the opening of the temporary file
C10_Step ==
    /\ (pc = "original" /\ pc' = "write") => (fs' \subseteq fs /\ temp' = <<0>>)
    /\ (pc = "write" /\ pc' = "write") => (fs' = fs /\ temp' = <<received'>>)
    /\ (pc = "write" /\ ~(fs' \subseteq fs)) =>
          (received = r.content_length /\ temp' = <<>> /\ pc' = "keep")
    /\ (pc = "write" /\ pc' # "write" /\ received # r.content_length) =>
          (pc' = "exit" /\ exit_code' = "-1" /\ fs' = fs)

\* C10: while the body of the original file is read, it goes to the temporary file
\* alone; a file appears in the working directory only when the count of received
\* chunks equals the declared length; when the counts differ the run aborts with
\* status -1 and the working directory is left as it was.
C10_AllOrNothing == [][C10_Step]_vars

C10_Witness ==
    /\ pc = "exit" /\ exit_code = "-1" /\ temp # <<>> /\ received # r.content_length
    /\ filename \notin fs

(***************************************************************************)
(* get_filename taken step by step, one turn of its while loop at a time:  *)
(* the specification SpecName. fn holds the arguments and the local        *)
(* variables of one call; kwargs holds the options.                        *)
(***************************************************************************)
NameSlack == 2         \* characters by which the longest texts exceed the ceiling

\* n times the character c
Rep(c, n) == [i \in 1..n |-> c]

NameLens == {1} \cup (MaxFilenameBytes - 5)..(MaxFilenameBytes + NameSlack)

\* titles: one character repeated, of 1, 2 and 4 bytes; a title with a character no
\* file name may hold; a title with a lone surrogate; a title with a separator
NameTitles ==
    {Rep(c, n) : c \in {"a", "U+00E9", "U+1F600"}, n \in NameLens}
    \cup {<<"a", "/", "b">>, <<"U+D800", "a">>, <<"a", "-", "b">>}

\* the provisional names download_original_file passes, and None for download_hls
NameOriginals ==
    {None, <<"o">> \o WAV, <<"o", ".", "W", "A", "V">>,
     Rep("o", MaxFilenameBytes + NameSlack) \o WAV,
     <<"o", ".">> \o Rep("x", MaxFilenameBytes + NameSlack),
     <<"\"", "o", "/", "b">> \o WAV \o <<"\"">>}

NamePlaylists == {Nil, [author |-> <<"u">>, title |-> <<"p">>, tracknumber |-> <<"0", "1">>]}

NameConfigs ==
    [c : {FALSE}, force_metadata : {FALSE}, remove : {FALSE}, overwrite : {FALSE},
     onlymp3 : {FALSE}, no_original : {FALSE}, only_original : {FALSE}, flac : {FALSE},
     download_archive : {<<>>},
     original_name : BOOLEAN, addtofile : BOOLEAN, addtimestamp : BOOLEAN,
     name_format : {<<"{title}">>},
     playlist_name_format : {<<"{playlist[title]}", "_", "{title}">>}]

InitName ==
    /\ kwargs \in NameConfigs
    /\ fn \in [pc : {"call"}, title : NameTitles, original_filename : NameOriginals,
               aac : BOOLEAN, playlist_info : NamePlaylists, ext : {<<>>},
               truncated : {FALSE}, result : {None}]
    /\ fs = {}
    /\ archive = None
    /\ fileToKeep = {}
    /\ pc = "get_filename"
    /\ ntracks = 0
    /\ exit_code = "running"
    /\ track = Nil
    /\ filename = None
    /\ is_already_downloaded = FALSE
    /\ r = NoResponse
    /\ received = 0
    /\ temp = <<>>
    /\ events = <<>>
    /\ outcome = "None"
    /\ lastCheck = Nil
    /\ runs = [id \in TrackIds |-> 0]
    /\ playlist = Nil

\* the track get_filename is called with
NameTrack == Track(1, <<TRUE, "ALLOW", TRUE, TRUE>>)

NameUnchanged ==
    UNCHANGED <<kwargs, fs, archive, fileToKeep, pc, ntracks, exit_code, track, filename,
                is_already_downloaded, r, received, temp, events, outcome, lastCheck, runs,
                playlist>>

\* get_filename, lines 369-393: the early return, or the title and the extension
get_filename_compose ==
    /\ fn.pc = "call"
    /\ LET t == [NameTrack EXCEPT !.title = fn.title]
           title == ComposeTitle(t, fn.playlist_info, kwargs)
       IN  IF kwargs.original_name /\ fn.original_filename # None
              /\ fn.original_filename # <<>>
           THEN fn' = [fn EXCEPT !.pc = "done", !.result = fn.original_filename]
           ELSE IF title = Error
           THEN fn' = [fn EXCEPT !.pc = "raise"]
           ELSE fn' = [fn EXCEPT !.pc = "loop", !.title = title,
                                 !.ext = ResolveExt(fn.original_filename, fn.aac)]
    /\ NameUnchanged

\* get_filename, lines 395-396: one turn of the loop
get_filename_truncate ==
    /\ fn.pc = "loop"
    /\ TooLong(fn.title, fn.ext)
    /\ fn' = [fn EXCEPT !.title = DropLast(fn.title, 1), !.truncated = TRUE]
    /\ NameUnchanged

\* get_filename, lines 397-399: the loop has ended
get_filename_return ==
    /\ fn.pc = "loop"
    /\ ~TooLong(fn.title, fn.ext)
    /\ fn' = [fn EXCEPT !.pc = "done", !.result = FinishFilename(fn.title, fn.ext)]
    /\ NameUnchanged

NextName == get_filename_compose \/ get_filename_truncate \/ get_filename_return

SpecName == InitName /\ [][NextName]_vars

\* C9: every name get_filename returns, with --original-name too, is at most 255
\* bytes in UTF-8, and when the title was truncated the name ends with the resolved
\* extension.
C9_Ceiling ==
    (fn # Nil /\ fn.pc = "done")
    => /\ EncodedLen(fn.result) <= MaxFilenameBytes
       /\ fn.truncated => EndsWith(fn.result, Lower(fn.ext))

(***************************************************************************)
(* Properties of a batch.                                                  *)
(***************************************************************************)
\* the run has ended on a fatal condition: sys.exit(-1), or an exception nothing catches
Fatal == pc = "exit" /\ exit_code # "0"

\* C11, the state part: a run that has ended has status 0 exactly when it met no fatal
\* condition, and a run that is still going has met none.
C11_Exit ==
    /\ pc = "exit" => (exit_code = "0" <=> outcome \notin {"FatalAbort", "Crash"})
    /\ pc # "exit" => (exit_code = "running" /\ outcome \notin {"FatalAbort", "Crash"})

\* C11, the step part: an incomplete transfer, a missing file after a reported success
\* and a conflict without permission each end the run at once with status -1, without
\* tagging; after a fatal end nothing happens any more; a skip, a finished track, a
\* failed tagging and a failed archive write leave the run going, back in the loop over
\* the tracks.
C11_Step ==
    /\ (pc = "write" /\ pc' # "write" /\ received # r.content_length)
          => (pc' = "exit" /\ exit_code' = "-1" /\ outcome' = "FatalAbort")
    /\ (pc = "tag" /\ filename \notin fs)
          => (pc' = "exit" /\ exit_code' = "-1" /\ outcome' = "FatalAbort"
              /\ events' = events)
    /\ (pc \in {"original", "select"} /\ lastCheck' # Nil /\ lastCheck'.ret = "exit")
          => (pc' = "exit" /\ exit_code' = "-1" /\ outcome' = "FatalAbort")
    /\ Fatal => UNCHANGED vars
    /\ (pc # "main" /\ outcome' \in {"SkippedNoOriginal", "AlreadyDownloaded", "Downloaded"})
          => (pc' = "main" /\ exit_code' = "running")
    /\ (pc = "main" /\ outcome' \in {"SkippedNotStreamable", "SkippedGeo"})
          => (pc' = "main" /\ exit_code' = "running")
    /\ (pc = "keep" /\ Len(events') > Len(events)
            /\ events'[Len(events')] = "record_failed")
          => (pc' \in {"main", "tag"} /\ exit_code' = "running")

\* C11: every fatal condition ends the whole run at once with a status other than 0:
\* no further track, no tagging, no cleanup sweep; every other condition lets the run
\* go on with the next track; a run without a fatal condition ends with status 0.
C11_FatalPropagation == [](C11_Exit) /\ [][C11_Step]_vars

\* a fatal condition in a batch that had tracks left and a cleanup sweep due
C11_Witness ==
    /\ Fatal /\ exit_code = "-1" /\ outcome = "FatalAbort"
    /\ ntracks < MaxBatch /\ kwargs.remove /\ fs # {}

\* C12, the state part: the keep list is filled only with --remove, and then holds the
\* reported file name of the track an acquirer has just given a result for.
C12_Kept ==
    /\ ~kwargs.remove => (fileToKeep = {} /\ pc # "remove")
    /\ (kwargs.remove /\ Current /\ (pc = "tag" \/ Finished)) => filename \in fileToKeep

\* C12, the step part: the sweep runs when the batch has completed with --remove; it
\* deletes every regular file of the working directory whose name is not in the keep
\* list, the archive file among them, and no file whose name is in it; the keep list
\* only grows, and each track that was fetched or found already present adds its file
\* name.
C12_Step ==
    /\ pc = "remove" =>
          /\ kwargs.remove
          /\ fs' = {f \in fs : f \in fileToKeep}
          /\ \A f \in fs \cap fileToKeep : f \in fs'
          /\ (ArchiveInCwd(kwargs) /\ archive # None) =>
                (archive' = IF kwargs.download_archive \in fileToKeep THEN archive ELSE None)
    /\ fileToKeep \subseteq fileToKeep'
    /\ (pc = "keep" /\ kwargs.remove) => fileToKeep' = fileToKeep \cup {filename}
    /\ (pc = "main" /\ pc' = "exit") => ~kwargs.remove

\* C12: when a batch completes with --remove, remove_files deletes every regular file
\* of the working directory whose name is not in the keep list and none whose name is
\* in it; every track that was fetched or found already present has its file name in
\* the keep list, so the sweep deletes no audio file the run produced or confirmed.
C12_Sweep == [](C12_Kept) /\ [][C12_Step]_vars

\* the sweep has run and has left the files of the keep list
C12_Witness ==
    /\ pc = "exit" /\ exit_code = "0" /\ kwargs.remove
    /\ fs # {} /\ fs = fileToKeep /\ ntracks >= 1

\* C13: every name get_filename returns, with --original-name too, holds no character
\* that is illegal in a file name.
C13_Sanitized ==
    (fn # Nil /\ fn.pc = "done")
    => \A i \in 1..Len(fn.result) : fn.result[i] \notin InvalidChars

\* C14: when download_track has finished a track after an acquirer reported a result,
\* fetched or skipped, the file is on disk under the reported name; a file that is
\* missing after a reported result ends the run in FatalAbort and the track is not
\* reported as done.
C14_FileExists == (Current /\ Finished) => filename \in fs

\* C15: with --flac set, --overwrite unset and a convertible target name,
\* already_downloaded reports a source file without its .flac sibling as absent, and
\* reports the .flac sibling as present whether or not the source file is there too.
C15_FlacMembership ==
    (lastCheck # Nil /\ kwargs.flac /\ ~kwargs.overwrite /\ can_convert(lastCheck.name))
    => /\ (lastCheck.isfile /\ ~lastCheck.sibling) => lastCheck.ret = "False"
       /\ lastCheck.sibling => lastCheck.ret \in {"True", "exit"}

\* the events of tagging
TagEvents == {"tagged", "tag_failed", "untaggable"}

\* the place of the first event of the set in the events of the track, 0 when none
FirstEvent(set) ==
    IF \E i \in 1..Len(events) : events[i] \in set
    THEN CHOOSE i \in 1..Len(events) :
            events[i] \in set /\ \A j \in 1..(i - 1) : events[j] \notin set
    ELSE 0

\* C16, the state part: with archive tracking enabled the write to the archive is the
\* first thing after an acquirer has returned and comes before the tagger; a track that
\* ends in one of the three skips has had no write.
C16_Order ==
    kwargs.download_archive # <<>> =>
       /\ pc = "keep" => FirstEvent({"recorded", "record_failed"} \cup TagEvents) = 0
       /\ (Current /\ (pc = "tag" \/ Finished)) =>
             /\ events[Len(events)] \in TagEvents \cup {"utime"}
                \/ events[Len(events)] \in {"recorded", "record_failed"}
             /\ FirstEvent({"recorded", "record_failed"}) > 0
             /\ FirstEvent(TagEvents) = 0
                \/ FirstEvent(TagEvents) = FirstEvent({"recorded", "record_failed"}) + 1
       /\ outcome \in {"SkippedNotStreamable", "SkippedGeo", "SkippedNoOriginal"} =>
             FirstEvent({"recorded", "record_failed"}) = 0

\* C16, the step part: with archive tracking enabled, the step after an acquirer's
\* result, fetched or skipped, appends one entry for the id of the track unless the
\* write meets an I/O error; no other step appends an entry.
C16_Step ==
    /\ (pc = "keep" /\ kwargs.download_archive # <<>>) =>
          \/ /\ events' = events \o <<"recorded">>
             /\ Entries(archive', track.id) = Entries(archive, track.id) + 1
          \/ /\ events' = events \o <<"record_failed">>
             /\ archive' = archive
    /\ \A id \in TrackIds :
          Entries(archive', id) > Entries(archive, id) => (pc = "keep" /\ id = track.id)

\* C16: with archive tracking enabled, for every track an acquirer returned a result
\* for, fetched or skipped alike, the id is appended to the archive right after that
\* result and before the tagger is invoked; for a track that ends in
\* SkippedNotStreamable, SkippedGeo or SkippedNoOriginal no id is appended.
C16_WriteOrdering == [](C16_Order) /\ [][C16_Step]_vars

\* a track found already present, recorded all the same, then tagged
C16_Witness ==
    /\ Current /\ Finished /\ is_already_downloaded /\ Len(events) >= 4
    /\ events[2] = "skipped" /\ events[3] = "recorded" /\ events[4] \in TagEvents

\* C17, the state part: a track skipped as not streamable or as blocked has had no
\* acquirer called and no check made, and the run is back in the loop over the tracks.
C17_Skipped ==
    outcome \in {"SkippedNotStreamable", "SkippedGeo"}
    => /\ pc = "main" /\ exit_code = "running"
       /\ events = <<>> /\ lastCheck = Nil /\ filename = None
       /\ outcome = (IF ~track.streamable THEN "SkippedNotStreamable" ELSE "SkippedGeo")

\* C17, the step part: the step that takes up a track that is not streamable or is
\* blocked ends that track at once, the streamable test first, and changes no file,
\* not the archive and not the keep list.
C17_Step ==
    (ntracks' = ntracks + 1 /\ (~track'.streamable \/ track'.policy = "BLOCK"))
    => /\ outcome' = (IF ~track'.streamable THEN "SkippedNotStreamable" ELSE "SkippedGeo")
       /\ pc' = "main" /\ exit_code' = "running"
       /\ fs' = fs /\ archive' = archive /\ fileToKeep' = fileToKeep /\ temp' = temp

\* C17: a track that is not streamable or whose policy is BLOCK is skipped before the
\* choice of the source, the streamable test taken first: no acquirer is called, no
\* file is created or deleted, the archive and the keep list are unchanged, and the
\* batch goes on with the next track.
C17_TerminalSkips == [](C17_Skipped) /\ [][C17_Step]_vars

\* the second track of a batch is under way and, with --remove set and --only-original
\* unset, the keep list is still empty: the first track ended in one of the two skips
C17_Witness ==
    /\ ntracks = 2 /\ pc = "keep" /\ kwargs.remove /\ ~kwargs.only_original
    /\ fileToKeep = {}

\* C18, the state part: with --only-original no stream acquisition is attempted; a
\* track for which there is no original file, because the original attempt was passed
\* over or because it reported none, ends in SkippedNoOriginal with no check made and
\* no archive write, and the run is back in the loop over the tracks.
C18_NoStream ==
    /\ kwargs.only_original =>
          /\ pc # "remux"
          /\ \A i \in 1..Len(events) : events[i] \notin {"stream", "manifest"}
          /\ (Current /\ pc = "main" /\ outcome \notin {"SkippedNotStreamable", "SkippedGeo"}
                /\ (events = <<>> \/ (Len(events) = 2 /\ events[2] = "no_original")))
             => outcome = "SkippedNoOriginal"
    /\ outcome = "SkippedNoOriginal" =>
          /\ kwargs.only_original /\ pc = "main" /\ exit_code = "running"
          /\ lastCheck = Nil /\ filename = None
          /\ events = <<>> \/ events = <<"original", "no_original">>
          /\ events = <<>> <=> ~WantsOriginal(track, kwargs)

\* C18, the step part: with --only-original, the steps of a track up to its end in
\* SkippedNoOriginal write no file and append nothing to the archive or the keep list.
C18_Step ==
    (kwargs.only_original
        /\ (pc' = "select" \/ outcome' = "SkippedNoOriginal"))
    => /\ fs' = fs /\ archive' = archive /\ fileToKeep' = fileToKeep /\ temp' = temp
       /\ pc = "select" => (pc' = "main" /\ outcome' = "SkippedNoOriginal")

\* C18: with --only-original, stream acquisition is never attempted; a track whose
\* original acquisition was passed over (not downloadable, no downloads left, --onlymp3
\* or --no-original) or reported no original file ends in SkippedNoOriginal with no
\* file written, no archive append and no keep-list entry, and the batch goes on.
C18_OnlyOriginal == [](C18_NoStream) /\ [][C18_Step]_vars

\* a downloadable track whose original attempt --onlymp3 passed over
C18_Witness ==
    /\ Current /\ outcome = "SkippedNoOriginal" /\ kwargs.onlymp3
    /\ track.downloadable /\ track.has_downloads_left /\ events = <<>>

\* the tagger raised an exception for the current track
TagFailed == \E i \in 1..Len(events) : events[i] = "tag_failed"

\* C19, the state part: after an exception of the tagger the track has gone on to the
\* update of the modification time and is reported as done; the run is still going;
\* the id written to the archive and the name put in the keep list are still there;
\* the next track of the batch, if there is one, can be taken up.
C19_Contained ==
    TagFailed =>
       /\ events[Len(events)] = "utime" /\ events[Len(events) - 1] = "tag_failed"
       /\ pc = "main" /\ exit_code = "running" /\ outcome = "Downloaded"
       /\ filename \in fs
       /\ (\E i \in 1..Len(events) : events[i] = "recorded") => Holds(archive, track.id)
       /\ kwargs.remove => filename \in fileToKeep
       /\ ntracks < MaxBatch => ENABLED (\E t \in Tracks : download_url(t))

\* C19, the step part: the step in which the tagger raises changes no file, not the
\* archive and not the keep list.
C19_Step ==
    (~TagFailed /\ TagFailed')
    => (pc = "tag" /\ fs' = fs /\ archive' = archive /\ fileToKeep' = fileToKeep)

\* C19: an exception raised by the tagger is caught and does not end the batch: the
\* track goes on to the update of the modification time and is reported as done, its
\* archive entry and its keep-list entry remain, and the next track is processed.
C19_TaggingContained == [](C19_Contained) /\ [][C19_Step]_vars

\* the tagger has raised for a track that was recorded and kept, and the batch has
\* tracks left
C19_Witness ==
    /\ TagFailed /\ pc = "main" /\ ntracks < MaxBatch
    /\ kwargs.remove /\ kwargs.download_archive # <<>> /\ Holds(archive, track.id)

\* set_metadata was called for the current track
TaggerInvoked == \E i \in 1..Len(events) : events[i] \in {"tagged", "tag_failed"}

\* the asset was already present and --force-metadata was not requested
TagSkipped == is_already_downloaded /\ ~kwargs.force_metadata

\* C20 as claimed: for a track that is finished, the tagger was not invoked exactly
\* when the asset was already present and --force-metadata was not requested.
C20_DecisionAsClaimed == (Current /\ Finished) => (~TaggerInvoked <=> TagSkipped)

\* C20: for a track that is finished, the tagger was invoked exactly when the asset was
\* not (already present without --force-metadata) and the file name ends in .mp3, .flac
\* or .m4a; for any other file name the tagger is not invoked and the track is finished
\* all the same.
C20_Decision ==
    (Current /\ Finished)
    => LET supported == \E e \in {MP3, FLAC, M4A} : EndsWith(filename, e)
       IN  /\ TaggerInvoked <=> (~TagSkipped /\ supported)
           /\ (\E i \in 1..Len(events) : events[i] = "untaggable")
                 <=> (~TagSkipped /\ ~supported)

\* an asset that was already present, tagged because --force-metadata was requested
C20_Witness ==
    /\ Current /\ Finished /\ is_already_downloaded /\ kwargs.force_metadata
    /\ TaggerInvoked /\ EndsWith(filename, M4A)

\* C21, the state part: a stream acquisition that found the track already done has
\* made no manifest request and run no remux, and reports the resolved name with the
\* skipped flag; a manifest request or a remux comes only after a check that reported
\* absent.
C21_SkipFirst ==
    /\ (Len(events) >= 2 /\ events[Len(events) - 1] = "stream"
          /\ events[Len(events)] = "skipped")
       => /\ pc \notin {"select", "remux"} /\ is_already_downloaded
          /\ lastCheck # Nil /\ lastCheck.ret = "True" /\ filename = lastCheck.name
    /\ (\E i \in 1..Len(events) : events[i] = "stream")
       => /\ \A i \in 1..Len(events) :
                events[i] = "skipped" => \A j \in 1..Len(events) : events[j] # "manifest"
          /\ (\E i \in 1..Len(events) : events[i] = "manifest")
                => (lastCheck # Nil /\ lastCheck.ret = "False")
    /\ pc = "remux" => (lastCheck # Nil /\ lastCheck.ret = "False")

\* C21, the step part: the step of download_hls that makes the check makes no manifest
\* request and changes no file but those the check itself removes under --overwrite.
C21_Step ==
    pc = "select" =>
       /\ \A i \in 1..Len(events') : events'[i] \notin {"manifest", "ffmpeg"}
       /\ fs' \subseteq fs
       /\ (lastCheck' # Nil /\ lastCheck'.ret = "True") =>
             (pc' = "keep" /\ is_already_downloaded' /\ filename' = lastCheck'.name)

\* C21: in download_hls the check is made before any network or subprocess call; when
\* it reports already done, download_hls returns the resolved name with the skipped
\* flag, and there is no manifest request and no remux.
C21_SkipPrecedesNetwork == [](C21_SkipFirst) /\ [][C21_Step]_vars

\* download_hls has just returned a track found already done
C21_Witness ==
    /\ Current /\ pc = "keep" /\ is_already_downloaded
    /\ events = <<"stream", "skipped">> /\ filename \in fs

\* the write of the id to the archive failed for the current track
WriteFailed == \E i \in 1..Len(events) : events[i] = "record_failed"

\* C22, the state part: after a failed write to the archive the run goes on: the track
\* is tagged unless tagging is skipped, and is finished; the run ends early only when
\* the file of the track is missing; the next track, if there is one, can be taken up.
C22_WriteFailure ==
    WriteFailed =>
       /\ pc \in {"tag", "main", "exit"}
       /\ pc = "exit" => (outcome = "FatalAbort" /\ filename \notin fs)
       /\ pc = "main" =>
             /\ exit_code = "running" /\ Finished
             /\ TagSkipped \/ events[Len(events)] = "utime"
             /\ ntracks < MaxBatch => ENABLED (\E t \in Tracks : download_url(t))

\* C22, the step part: a membership check that cannot read an archive that holds the
\* id reports the id as not found, decides by the file alone and leaves the archive as
\* it is; a failed write leaves the archive as it is and the track goes on.
C22_Step ==
    /\ (pc \in {"original", "select"} /\ archive # None /\ Holds(archive, track.id)
          /\ lastCheck' # Nil /\ ~lastCheck'.found)
       => /\ archive' = archive
          /\ lastCheck'.ret = (IF ~lastCheck'.isfile THEN "False"
                               ELSE IF kwargs.c \/ kwargs.remove \/ kwargs.force_metadata
                               THEN "True" ELSE "exit")
    /\ (pc = "keep" /\ ~WriteFailed /\ WriteFailed')
       => (archive' = archive /\ pc' \in {"tag", "main"} /\ exit_code' = "running")

\* C22: a failure to read the archive makes the membership check report not found, so
\* that the decision rests on the file checks alone; a failure to write the archive is
\* logged and the track goes on to tagging and completion; neither ends the batch.
C22_ArchiveErrors == [](C22_WriteFailure) /\ [][C22_Step]_vars

\* a track whose id the archive holds: the read failed, the track was fetched, the
\* write failed, the track was tagged and is done
C22_Witness ==
    /\ Current /\ Finished /\ ntracks < MaxBatch
    /\ Holds(archive, track.id) /\ lastCheck # Nil /\ ~lastCheck.found
    /\ WriteFailed /\ TaggerInvoked /\ outcome = "Downloaded"

\* a step of the pipeline appends the id of the current track to the archive
C23_Appends ==
    /\ pc = "keep" /\ archive' # None
    /\ Entries(archive', track.id) > (IF archive = None THEN 0 ELSE Entries(archive, track.id))

\* C23: with archive tracking enabled, whenever the pipeline appends the id of a track
\* to the archive, the audio file of that track is on disk under the resolved name at
\* that moment; no id is recorded for a track whose acquisition left no file.
C23_RecordedHasFile == [][C23_Appends => filename \in fs]_vars

\* C24: the loop of get_filename that shortens the title ends for every input, a
\* name whose extension alone reaches the ceiling included: whenever the loop has to
\* take one more turn there is a character left to drop from the title, so that every
\* turn shortens the title and the turns run out.
C24_LoopEnds ==
    (fn # Nil /\ fn.pc = "loop" /\ TooLong(fn.title, fn.ext)) => fn.title # <<>>

(***************************************************************************)
(* download_playlist, taken by itself: the loop over the tracks of a        *)
(* playlist is followed step by step in the specification SpecList.         *)
(* playlist holds the arguments and the local variables of the call, the    *)
(* directories of the starting directory, the working directory, and, as    *)
(* history, what was handed to download_track.                              *)
(***************************************************************************)
MaxPlaylist == 10
MaxOffset == 3

\* str.zfill for the text of a natural number
zfill(s, width) == IF Len(s) >= width THEN s ELSE Rep("0", width - Len(s)) \o s

\* list.sort(key=lambda track: track.created_at, reverse=True): newest first, tracks
\* of one date in their order
SortNewestFirst(tracks) ==
    LET before(i, j) == \/ tracks[i].created_at > tracks[j].created_at
                        \/ tracks[i].created_at = tracks[j].created_at /\ i < j
        rank(j) == Cardinality({i \in 1..Len(tracks) : before(i, j)}) + 1
    IN  [k \in 1..Len(tracks) |-> tracks[CHOOSE j \in 1..Len(tracks) : rank(j) = k]]

\* the playlists: up to MaxPlaylist tracks, each with its 1-based position, the oldest
\* first, the newest first, or all of one date
ListTracks ==
    {[i \in 1..len |-> [position |-> i,
                        created_at |-> CASE order = "oldest first" -> i
                                         [] order = "newest first" -> len + 1 - i
                                         [] order = "one date" -> 7]] :
        len \in 0..MaxPlaylist, order \in {"oldest first", "newest first", "one date"}}

\* -n: unset, or a text whose int() is the number of tracks to take
ListLasts == {Nil} \cup {[int |-> k] : k \in 0..2}

\* the name of the directory of the playlist
ListFolder == sanitize_filename(Utf8Ignore(<<"p">>))

InitList ==
    /\ playlist \in [pc : {"call"}, tracks : ListTracks, n : ListLasts,
                     offset : 1..MaxOffset, no_playlist_folder : BOOLEAN,
                     dirs : {{}, {ListFolder}}, cwd : {<<>>},
                     tracknumber_digits : {0}, counter : {0}, next : {0},
                     handed : {<<>>}]
    /\ kwargs \in NameConfigs
    /\ ~kwargs.original_name /\ ~kwargs.addtofile /\ ~kwargs.addtimestamp
    /\ fn = Nil
    /\ fs = {}
    /\ archive = None
    /\ fileToKeep = {}
    /\ pc = "download_playlist"
    /\ ntracks = 0
    /\ exit_code = "running"
    /\ track = Nil
    /\ filename = None
    /\ is_already_downloaded = FALSE
    /\ r = NoResponse
    /\ received = 0
    /\ temp = <<>>
    /\ events = <<>>
    /\ outcome = "None"
    /\ lastCheck = Nil
    /\ runs = [id \in TrackIds |-> 0]

ListUnchanged ==
    UNCHANGED <<kwargs, fs, archive, fileToKeep, pc, ntracks, exit_code, track, filename,
                is_already_downloaded, r, received, temp, events, outcome, lastCheck, runs,
                fn>>

\* download_playlist, lines 328-345: the directory of the playlist, the tracks to go
\* through, and the width of the track numbers
download_playlist_begin ==
    /\ playlist.pc = "call"
    /\ LET tracks == IF playlist.n # Nil
                     THEN LET sorted == SortNewestFirst(playlist.tracks)
                          IN  SubSeq(sorted, 1, IF playlist.n.int < Len(sorted)
                                                THEN playlist.n.int ELSE Len(sorted))
                     ELSE SubSeq(playlist.tracks, playlist.offset, Len(playlist.tracks))
       IN  playlist' = [playlist EXCEPT
              !.pc = "loop",
              !.dirs = IF playlist.no_playlist_folder THEN @ ELSE @ \cup {ListFolder},
              !.cwd = IF playlist.no_playlist_folder THEN @ ELSE <<ListFolder>>,
              !.tracks = tracks,
              !.tracknumber_digits = Len(Str(Len(tracks))),
              !.counter = playlist.offset,
              !.next = 1]
    /\ ListUnchanged

\* download_playlist, lines 346-359: one turn of the loop: the playlist_info of the
\* track is made and handed with the track to download_track, which returns, or ends
\* the run, and then the finally clause leaves the directory
download_playlist_track ==
    /\ playlist.pc = "loop"
    /\ playlist.next <= Len(playlist.tracks)
    /\ LET playlist_info ==
              [author |-> <<"u">>, title |-> <<"p">>,
               tracknumber |-> zfill(Str(playlist.counter), playlist.tracknumber_digits)]
           call == [track |-> playlist.tracks[playlist.next],
                    playlist_info |-> playlist_info]
       IN  \E returns \in BOOLEAN :
              playlist' = [playlist EXCEPT
                 !.handed = Append(@, call),
                 !.counter = IF returns THEN @ + 1 ELSE @,
                 !.next = IF returns THEN @ + 1 ELSE @,
                 !.cwd = IF returns THEN @ ELSE <<>>,
                 !.pc = IF returns THEN "loop" ELSE "exit"]
    /\ ListUnchanged

\* download_playlist, lines 357-359: the loop has ended
download_playlist_end ==
    /\ playlist.pc = "loop"
    /\ playlist.next > Len(playlist.tracks)
    /\ playlist' = [playlist EXCEPT !.pc = "done", !.cwd = <<>>]
    /\ ListUnchanged

NextList == download_playlist_begin \/ download_playlist_track \/ download_playlist_end

SpecList == InitList /\ [][NextList]_vars

\* C25: within one download_playlist call with -n unset, for every length of the
\* playlist and every offset of at least 1, the track numbers handed to the tracks
\* are zero-padded to one width, which for a call that went through all its tracks is
\* the number of digits of the largest position handed out, and the numbers are the
\* 1-based positions of the tracks in the playlist.
C25_TrackNumbers ==
    (playlist # Nil /\ playlist.n = Nil /\ playlist.handed # <<>>)
    => LET handed == playlist.handed
           width == Len(handed[1].playlist_info.tracknumber)
           largest == handed[Len(handed)].track.position
       IN  /\ \A i \in 1..Len(handed) :
                 LET number == handed[i].playlist_info.tracknumber
                     position == Str(handed[i].track.position)
                 IN  /\ Len(number) = width
                     /\ Len(position) <= width
                     /\ number = Rep("0", width - Len(position)) \o position
           /\ playlist.pc = "done" => width = Len(Str(largest))

====
